---- MODULE Spec2Model ----
(***************************************************************************)
(* Model of the attendance reconciliation pipeline of dashboard/server.js  *)
(* (the second, current version of the file, lines 271-859, and the        *)
(* earlier handler kept at lines 141-266).                                 *)
(*                                                                         *)
(* JavaScript strings are modelled as sequences of one-character strings,  *)
(* so that toLowerCase, trim, replace and includes are computed and not    *)
(* assumed.  null, undefined and '' are all falsy in the places the code   *)
(* tests them (value || '', entry.email ? ...), and are modelled by the    *)
(* empty sequence.  Object identity of a record is its "id" field.         *)
(***************************************************************************)
EXTENDS Integers, Sequences, FiniteSets, TLC

VARIABLES
    pc,               \* position of the operation under study
    attendanceList,   \* matchAttendanceToRegistrants: first argument
    registrants,      \* matchAttendanceToRegistrants: second argument
    matched,          \* matchAttendanceToRegistrants: result.matched
    external,         \* matchAttendanceToRegistrants: result.external
    rawAttendance,    \* filterAndDedupAttendance: attendees
    sessionStart,     \* filterAndDedupAttendance: sessionStart
    sessionEnd,       \* filterAndDedupAttendance: sessionEnd
    deduped,          \* filterAndDedupAttendance(rawAttendance, ...)
    rededuped,        \* filterAndDedupAttendance(deduped, ...)
    detailedEvents,   \* processEvents: the events with their inviteeDetails
    webinars,         \* processEvents: the events of each collective
    collectiveStats,  \* processEvents: the result
    sessionIn,        \* processEvents: one grouped session s (line 720)
    includeAttendance,\* processEvents: options.includeAttendance and the Zoom configuration
    zoomParticipants, \* the participants the video provider reports for the meeting
    zoomCall,         \* the progress of fetchZoomParticipants's request to the provider
    sessionOut,       \* processEvents: the baseSession returned for s (line 756)
    now,              \* the clock read by new Date()
    calendlyTokens,   \* the module-level token pair (line 302)
    mainCall,         \* the makeCalendlyRequest call the handler is awaiting
    minStartTime,     \* min_start_time sent with the scheduled_events request
    events,           \* eventsRes.data.collection
    branches,         \* processEvents: one invitee fetch per event (Promise.all, line 652)
    response,         \* what the handler sent with res
    provider,         \* the scheduling provider's side: the tokens it accepts
    pageSource,       \* a provider's side of a paginated list: its pages
    pager,            \* a pagination loop: its continuation, its list, its requests
    zoomCreds,        \* whether the video provider's credentials are configured
    zoomTokenCache,   \* the cached video-provider token and its expiry
    tokenCalls        \* the calls of getZoomAccessToken, each with what it read and did

matchVars == <<attendanceList, registrants, matched, external>>

dedupVars == <<rawAttendance, sessionStart, sessionEnd, deduped, rededuped>>

groupVars == <<detailedEvents, webinars, collectiveStats>>

rateVars == <<sessionIn, includeAttendance, zoomParticipants, zoomCall, sessionOut>>

zoomTokenVars == <<zoomCreds, zoomTokenCache, tokenCalls>>

requestVars == <<now, calendlyTokens, mainCall, minStartTime, events, branches,
                 response, provider, pageSource, pager, zoomTokenVars>>

vars == <<pc, matchVars, dedupVars, groupVars, rateVars, requestVars>>

(***************************************************************************)
(* Bounds of the model.                                                    *)
(***************************************************************************)
MaxAttendance == 2   \* length of the attendance list given to the matcher
MaxRegistrants == 2  \* length of a registrant list
MaxRaw == 3          \* length of a raw participant list given to the deduplicator
MaxEvents == 2       \* number of scheduled events given to processEvents
MaxInvitees == 2     \* number of invitees of one scheduled event
MaxRoster == 8       \* registrants, and participants, of the session whose rate is computed
MaxTime == 1         \* ticks of the clock while one request is served
MaxRequestEvents == 2 \* events returned to one request
MaxPages == 2        \* pages of invitees of one event

Null == -1           \* null / undefined / unparseable, where a number or a date is expected

(***************************************************************************)
(* Generic helpers.                                                        *)
(***************************************************************************)
SeqsUpTo(S, n) == UNION {[1..k -> S] : k \in 0..n}

SetMin(S) == CHOOSE x \in S : \A y \in S : x <= y

SetMax(S) == CHOOSE x \in S : \A y \in S : x >= y

\* Array.prototype.forEach / reduce: Op applied to the elements in order.
\* (The intermediate results are bound as values, v and t, so that each is
\* computed once.)
RECURSIVE FoldLeft(_, _, _)
FoldLeft(Op(_, _), acc, s) ==
    IF s = <<>> THEN acc
    ELSE CHOOSE r \in {FoldLeft(Op, v, t) : v \in {Op(acc, Head(s))}, t \in {Tail(s)}} : TRUE

(***************************************************************************)
(* JavaScript string primitives on character sequences.                    *)
(***************************************************************************)
UpperChars ==
    <<"A","B","C","D","E","F","G","H","I","J","K","L","M",
      "N","O","P","Q","R","S","T","U","V","W","X","Y","Z">>

LowerChars ==
    <<"a","b","c","d","e","f","g","h","i","j","k","l","m",
      "n","o","p","q","r","s","t","u","v","w","x","y","z">>

WhiteSpace == {" ", "\t"}

UpperToLower ==
    [c \in {UpperChars[i] : i \in 1..Len(UpperChars)} |->
        LowerChars[CHOOSE i \in 1..Len(UpperChars) : UpperChars[i] = c]]

ToLowerChar(c) == IF c \in DOMAIN UpperToLower THEN UpperToLower[c] ELSE c

\* String.prototype.toLowerCase
toLowerCase(s) == [i \in 1..Len(s) |-> ToLowerChar(s[i])]

\* String.prototype.trim
trim(s) ==
    LET keep == {i \in 1..Len(s) : s[i] \notin WhiteSpace}
    IN  IF keep = {} THEN <<>> ELSE SubSeq(s, SetMin(keep), SetMax(keep))

RECURSIVE DropSpaces(_)
DropSpaces(s) ==
    IF s # <<>> /\ Head(s) \in WhiteSpace THEN DropSpaces(Tail(s)) ELSE s

\* String.prototype.replace(/\s+/g, ' ')
RECURSIVE CollapseSpaces(_)
CollapseSpaces(s) ==
    IF s = <<>> THEN <<>>
    ELSE IF Head(s) \in WhiteSpace
         THEN <<" ">> \o CollapseSpaces(DropSpaces(Tail(s)))
         ELSE <<Head(s)>> \o CollapseSpaces(Tail(s))

\* String.prototype.includes
includes(s, t) ==
    \E i \in 0..(Len(s) - Len(t)) : SubSeq(s, i + 1, i + Len(t)) = t

(***************************************************************************)
(* Identity Normalizer (server.js 564-570).                                *)
(***************************************************************************)
normalizeEmail(value) == trim(toLowerCase(value))

normalizeName(value) == trim(CollapseSpaces(toLowerCase(value)))

(***************************************************************************)
(* Registrant Matcher (server.js 614-645).                                 *)
(***************************************************************************)
\* lines 618-625: the two sets built from the registrants
registrantEmails(regs) ==
    {normalizeEmail(regs[i].email) : i \in 1..Len(regs)} \ {<<>>}

registrantNames(regs) ==
    {normalizeName(regs[i].name) : i \in 1..Len(regs)} \ {<<>>}

\* A plausible slip: the email branch forgets its "return" (line 634), so an
\* entry matched by email goes on to the name test and the external list.
MatchEntryFallThrough(acc, entry) ==
    LET email == normalizeEmail(entry.email)
        nameKey == normalizeName(entry.name)
        byEmail == email # <<>> /\ email \in acc.emails
        acc1 == IF byEmail
                THEN [acc EXCEPT !.matched = Append(@, entry),
                                 !.emails = @ \ {email}]
                ELSE acc
    IN  IF nameKey # <<>> /\ nameKey \in acc1.names
        THEN [acc1 EXCEPT !.matched = Append(@, entry),
                          !.names = @ \ {nameKey}]
        ELSE [acc1 EXCEPT !.external = Append(@, entry)]

\* A plausible slip: a matched email is not deleted from the set (line 633
\* is missing).
MatchEntryNoConsume(acc, entry) ==
    LET email == normalizeEmail(entry.email)
        nameKey == normalizeName(entry.name)
    IN  IF email # <<>> /\ email \in acc.emails
        THEN [acc EXCEPT !.matched = Append(@, entry)]
        ELSE IF nameKey # <<>> /\ nameKey \in acc.names
        THEN [acc EXCEPT !.matched = Append(@, entry),
                         !.names = @ \ {nameKey}]
        ELSE [acc EXCEPT !.external = Append(@, entry)]

\* lines 629-643: the body of attendanceList.forEach
MatchEntry(acc, entry) ==
    LET email == normalizeEmail(entry.email)
        nameKey == normalizeName(entry.name)
    IN  IF email # <<>> /\ email \in acc.emails
        THEN [acc EXCEPT !.matched = Append(@, entry),
                         !.emails = @ \ {email}]
        ELSE IF nameKey # <<>> /\ nameKey \in acc.names
        THEN [acc EXCEPT !.matched = Append(@, entry),
                         !.names = @ \ {nameKey}]
        ELSE [acc EXCEPT !.external = Append(@, entry)]

matchAttendanceToRegistrants(attendance, regs) ==
    IF attendance = <<>>
    THEN [matched |-> <<>>, external |-> <<>>]
    ELSE LET r == FoldLeft(MatchEntry,
                           [emails |-> registrantEmails(regs),
                            names |-> registrantNames(regs),
                            matched |-> <<>>, external |-> <<>>],
                           attendance)
         IN  [matched |-> r.matched, external |-> r.external]

(***************************************************************************)
(* Inputs of the matcher.                                                  *)
(***************************************************************************)
EmailA == <<"a","@","x">>                  \* 'a@x'
EmailAPadded == <<" ","A","@","X"," ">>    \* ' A@X ', normalizes to 'a@x'
EmailB == <<"b","@","x">>                  \* 'b@x'
NameBo == <<"b","o"," ","l","i">>          \* 'bo li'
NameBoPadded == <<" ","B","o"," "," ","L","i">>  \* ' Bo  Li', normalizes to 'bo li'
Empty == <<>>                              \* '' / null / undefined

Person ==
    { [email |-> EmailA,       name |-> NameBo],
      [email |-> EmailAPadded, name |-> Empty],
      [email |-> Empty,        name |-> NameBoPadded],
      [email |-> EmailB,       name |-> NameBo],
      [email |-> EmailB,       name |-> Empty],
      [email |-> Empty,        name |-> Empty] }

\* a list of n persons, the i-th carrying identity i
WithIds(ps) == [i \in 1..Len(ps) |-> [id |-> i, email |-> ps[i].email, name |-> ps[i].name]]

(***************************************************************************)
(* Specification SpecMatch: the matcher applied to every bounded input.    *)
(***************************************************************************)
MatchIdle ==
    /\ attendanceList = <<>>
    /\ registrants = <<>>
    /\ matched = <<>>
    /\ external = <<>>

DedupIdle ==
    /\ rawAttendance = <<>>
    /\ sessionStart = Null
    /\ sessionEnd = Null
    /\ deduped = <<>>
    /\ rededuped = <<>>

GroupIdle ==
    /\ detailedEvents = <<>>
    /\ webinars = <<>>
    /\ collectiveStats = <<>>

RateIdle ==
    /\ sessionIn = <<>>
    /\ includeAttendance = <<>>
    /\ zoomParticipants = <<>>
    /\ zoomCall = <<>>
    /\ sessionOut = <<>>

ZoomTokenIdle ==
    /\ zoomCreds = <<>>
    /\ zoomTokenCache = <<>>
    /\ tokenCalls = <<>>

RequestIdle ==
    /\ now = 0
    /\ calendlyTokens = <<>>
    /\ mainCall = <<>>
    /\ minStartTime = Null
    /\ events = <<>>
    /\ branches = <<>>
    /\ response = <<>>
    /\ provider = <<>>
    /\ pageSource = <<>>
    /\ pager = <<>>
    /\ ZoomTokenIdle

InitMatch ==
    /\ pc = "input"
    /\ DedupIdle
    /\ GroupIdle
    /\ RateIdle
    /\ RequestIdle
    /\ \E ps \in SeqsUpTo(Person, MaxAttendance) : attendanceList = WithIds(ps)
    /\ \E ps \in SeqsUpTo(Person, MaxRegistrants) : registrants = WithIds(ps)
    /\ matched = <<>>
    /\ external = <<>>

Match ==
    /\ pc = "input"
    /\ LET r == matchAttendanceToRegistrants(attendanceList, registrants)
       IN  /\ matched' = r.matched
           /\ external' = r.external
    /\ pc' = "matched"
    /\ UNCHANGED <<attendanceList, registrants, dedupVars, groupVars, rateVars, requestVars>>

NextMatch == Match

SpecMatch == InitMatch /\ [][NextMatch]_vars

Range(s) == {s[i] : i \in 1..Len(s)}

\* C1: the number of matched records never exceeds the number of registrants.
C1_MatchedAtMostRegistrants ==
    pc = "matched" => Len(matched) <= Len(registrants)

\* C2: matched and external are disjoint and together classify every input
\* record exactly once: their lengths sum to the input's length.
C2_Partition ==
    pc = "matched" =>
        /\ Len(matched) + Len(external) = Len(attendanceList)
        /\ Range(matched) \cap Range(external) = {}
        /\ Range(matched) \cup Range(external) = Range(attendanceList)

C2_Witness ==
    /\ pc = "matched"
    /\ Len(matched) >= 1
    /\ Len(external) >= 1

(***************************************************************************)
(* Attendance Deduplicator (server.js 572-612).  Instants are counted in   *)
(* hours, the unit of the two window constants.                            *)
(***************************************************************************)
TwoHours == 2    \* 2 * 60 * 60 * 1000 ms
OneHour == 1     \* 60 * 60 * 1000 ms

\* parseDateSafe (558-562): a Date, or null
parseDateSafe(value) == value

\* the ISO string of an instant inside a template literal: `${joinTime || ''}`
TimeString(t) == IF t = Null THEN <<>> ELSE <<ToString(t)>>

Guest == <<"g","u","e","s","t">>

\* lines 574-578
windowStart(start) == IF start = Null THEN Null ELSE start - TwoHours

windowEnd(start, end) ==
    LET fallbackEnd == IF end # Null THEN end
                       ELSE IF start # Null THEN start + TwoHours ELSE Null
    IN  IF fallbackEnd = Null THEN Null ELSE fallbackEnd + OneHour

\* lines 580-585: the predicate of attendees.filter
InWindow(entry, start, end) ==
    LET ws == windowStart(parseDateSafe(start))
        we == windowEnd(parseDateSafe(start), parseDateSafe(end))
        join == parseDateSafe(entry.joinTime)
    IN  IF ws = Null \/ we = Null THEN TRUE
        ELSE IF join = Null THEN TRUE
        ELSE join >= ws /\ join <= we

\* lines 589-591: the key of the Map
dedupKey(entry) ==
    IF entry.email # <<>>
    THEN trim(toLowerCase(entry.email))
    ELSE toLowerCase(IF entry.name # <<>> THEN entry.name ELSE Guest)
         \o <<"-">> \o TimeString(entry.joinTime)

\* typeof x.duration === 'number' ? x.duration : 0
durationOrZero(entry) == IF entry.duration = Null THEN 0 ELSE entry.duration

\* lines 588-602: the body of filtered.forEach; the Map is the sequence of
\* its entries in insertion order, and set() on a present key keeps its place
dedupEntry(map, entry) ==
    LET key == dedupKey(entry)
        at == {i \in 1..Len(map) : map[i].key = key}
    IN  IF at = {}
        THEN Append(map, [key |-> key, value |-> entry])
        ELSE LET i == CHOOSE i \in at : TRUE
             IN  IF durationOrZero(entry) > durationOrZero(map[i].value)
                 THEN [map EXCEPT ![i].value = entry]
                 ELSE map

\* A plausible slip: the comparator without its "both missing" case.
compareJoinTimeNoTie(a, b) ==
    LET aTime == parseDateSafe(a.joinTime)
        bTime == parseDateSafe(b.joinTime)
    IN  IF aTime = Null THEN 1
        ELSE IF bTime = Null THEN -1
        ELSE aTime - bTime

\* lines 604-611: the comparator of the final sort
compareJoinTime(a, b) ==
    LET aTime == parseDateSafe(a.joinTime)
        bTime == parseDateSafe(b.joinTime)
    IN  IF aTime = Null /\ bTime = Null THEN 0
        ELSE IF aTime = Null THEN 1
        ELSE IF bTime = Null THEN -1
        ELSE aTime - bTime

\* Array.prototype.sort, which is stable: x goes behind every element already
\* placed that does not compare greater than it
sortInsert(sorted, x) ==
    LET before == {i \in 1..Len(sorted) : compareJoinTime(sorted[i], x) <= 0}
        k == IF before = {} THEN 0 ELSE SetMax(before)
    IN  SubSeq(sorted, 1, k) \o <<x>> \o SubSeq(sorted, k + 1, Len(sorted))

sortByJoinTime(list) == FoldLeft(sortInsert, <<>>, list)

filterAndDedupAttendance(attendees, start, end) ==
    IF attendees = <<>> THEN <<>>
    ELSE LET filtered == SelectSeq(attendees, LAMBDA e : InWindow(e, start, end))
             map == FoldLeft(dedupEntry, <<>>, filtered)
         IN  sortByJoinTime([i \in 1..Len(map) |-> map[i].value])

(***************************************************************************)
(* Inputs of the deduplicator: participant records of one meeting.         *)
(***************************************************************************)
Participant ==
    { [email |-> EmailA,       name |-> NameBo,       joinTime |-> 9,    duration |-> 10],
      [email |-> EmailAPadded, name |-> NameBo,       joinTime |-> 11,   duration |-> 50],
      [email |-> EmailA,       name |-> NameBo,       joinTime |-> 11,   duration |-> 10],
      [email |-> Empty,        name |-> NameBo,       joinTime |-> 9,    duration |-> 10],
      [email |-> Empty,        name |-> NameBo,       joinTime |-> 11,   duration |-> 50],
      [email |-> Empty,        name |-> NameBoPadded, joinTime |-> 9,    duration |-> 50],
      [email |-> Empty,        name |-> NameBo,       joinTime |-> 9,    duration |-> 50],
      [email |-> EmailB,       name |-> Empty,        joinTime |-> Null, duration |-> Null],
      [email |-> EmailB,       name |-> NameBo,       joinTime |-> 20,   duration |-> 10],
      [email |-> Empty,        name |-> Empty,        joinTime |-> Null, duration |-> 10] }

WithParticipantIds(ps) ==
    [i \in 1..Len(ps) |->
        [id |-> i, email |-> ps[i].email, name |-> ps[i].name,
         joinTime |-> ps[i].joinTime, duration |-> ps[i].duration]]

SessionStarts == {Null, 10}
SessionEnds == {Null, 11}

(***************************************************************************)
(* Specification SpecDedup: the deduplicator applied to every bounded      *)
(* input, and then to its own output.                                      *)
(***************************************************************************)
InitDedup ==
    /\ pc = "input"
    /\ MatchIdle
    /\ GroupIdle
    /\ RateIdle
    /\ RequestIdle
    /\ \E ps \in SeqsUpTo(Participant, MaxRaw) : rawAttendance = WithParticipantIds(ps)
    /\ sessionStart \in SessionStarts
    /\ sessionEnd \in SessionEnds
    /\ deduped = <<>>
    /\ rededuped = <<>>

Dedup ==
    /\ pc = "input"
    /\ deduped' = filterAndDedupAttendance(rawAttendance, sessionStart, sessionEnd)
    /\ pc' = "deduped"
    /\ UNCHANGED <<rawAttendance, sessionStart, sessionEnd, rededuped, matchVars, groupVars, rateVars, requestVars>>

DedupAgain ==
    /\ pc = "deduped"
    /\ rededuped' = filterAndDedupAttendance(deduped, sessionStart, sessionEnd)
    /\ pc' = "rededuped"
    /\ UNCHANGED <<rawAttendance, sessionStart, sessionEnd, deduped, matchVars, groupVars, rateVars, requestVars>>

NextDedup == Dedup \/ DedupAgain

SpecDedup == InitDedup /\ [][NextDedup]_vars

\* the identity key as the specification words it: the normalized email when
\* non-empty, otherwise the normalized name alone
identityKey(entry) ==
    IF normalizeEmail(entry.email) # <<>>
    THEN <<"email", normalizeEmail(entry.email)>>
    ELSE <<"name", normalizeName(entry.name)>>

\* C3: the deduplicator's output holds at most one record per identity key
\* (normalized email, else normalized name alone, whatever the join times).
C3_OnePerIdentityKey ==
    pc = "deduped" =>
        \A i, j \in 1..Len(deduped) :
            i # j => identityKey(deduped[i]) # identityKey(deduped[j])

\* C4: deduplicating the deduplicator's output, for the same session start
\* and end, gives the same list in the same order.
C4_Idempotent ==
    pc = "rededuped" => rededuped = deduped

C4_Witness ==
    /\ pc = "rededuped"
    /\ Len(deduped) >= 2
    /\ Len(deduped) < Len(rawAttendance)
    /\ \E i, j \in 1..Len(deduped) : i < j /\ deduped[i].id > deduped[j].id

(***************************************************************************)
(* processEvents, step D (server.js 683-771): Cohort Classifier, Session   *)
(* Grouper and the per-collective totals.                                  *)
(***************************************************************************)
targetNames ==
    << <<"M","u","m","b","a","i">>,
       <<"B","h","o","p","a","l">>,
       <<"H","a","m","m","i","y","a","l","a">>,
       <<"P","o","o","m","a","a","l","e">> >>

NoCollective == <<>>   \* the undefined that Array.prototype.find returns

\* A plausible slip: the title is compared without being lower-cased.
collectiveOfCaseSensitive(name) ==
    LET hits == {i \in 1..Len(targetNames) :
                    includes(name, toLowerCase(targetNames[i]))}
    IN  IF hits = {} THEN NoCollective ELSE targetNames[SetMin(hits)]

\* line 689: targetNames.find(t => name.toLowerCase().includes(t.toLowerCase()))
collectiveOf(name) ==
    LET hits == {i \in 1..Len(targetNames) :
                    includes(toLowerCase(name), toLowerCase(targetNames[i]))}
    IN  IF hits = {} THEN NoCollective ELSE targetNames[SetMin(hits)]

\* line 684: one empty list per collective
emptyWebinars == [c \in Range(targetNames) |-> <<>>]

\* lines 687-698: the body of detailedEvents.forEach
classifyEvent(w, event) ==
    LET collective == collectiveOf(event.name)
    IN  IF collective # NoCollective
        THEN [w EXCEPT ![collective] =
                 Append(@, [rawEvent |-> event,
                            startTime |-> event.start_time,
                            invitees |-> event.inviteeDetails])]
        ELSE w

\* Date.prototype.toISOString: one string per instant
toISOString(t) == <<ToString(t)>>

\* A plausible slip: the session is created anew for every event (the test of
\* line 706 is missing), which drops the invitees gathered so far.
groupItemOverwrite(sessionsMap, item) ==
    LET key == toISOString(item.startTime)
        at == {i \in 1..Len(sessionsMap) : sessionsMap[i].key = key}
        fresh == [date |-> item.startTime,
                  endDate |-> item.rawEvent.end_time,
                  eventName |-> item.rawEvent.name,
                  location |-> item.rawEvent.location,
                  attendees |-> item.invitees]
    IN  IF at = {}
        THEN Append(sessionsMap, [key |-> key, value |-> fresh])
        ELSE [sessionsMap EXCEPT ![CHOOSE i \in at : TRUE].value = fresh]

\* lines 704-716: the body of rawList.forEach; the object sessionsMap is the
\* sequence of its properties in insertion order
groupItem(sessionsMap, item) ==
    LET key == toISOString(item.startTime)
        at == {i \in 1..Len(sessionsMap) : sessionsMap[i].key = key}
        fresh == [date |-> item.startTime,
                  endDate |-> item.rawEvent.end_time,
                  eventName |-> item.rawEvent.name,
                  location |-> item.rawEvent.location,
                  attendees |-> <<>>]
        m == IF at = {}
             THEN Append(sessionsMap, [key |-> key, value |-> fresh])
             ELSE sessionsMap
        i == CHOOSE i \in 1..Len(m) : m[i].key = key
    IN  [m EXCEPT ![i].value.attendees = @ \o item.invitees]

\* line 719: .sort((a, b) => a.date - b.date), a stable sort
sortSessionInsert(sorted, x) ==
    LET before == {i \in 1..Len(sorted) : sorted[i].date - x.date <= 0}
        k == IF before = {} THEN 0 ELSE SetMax(before)
    IN  SubSeq(sorted, 1, k) \o <<x>> \o SubSeq(sorted, k + 1, Len(sorted))

\* lines 701-719: the sessions of one collective, before enrichment
groupSessions(rawList) ==
    CHOOSE r \in {FoldLeft(sortSessionInsert, <<>>,
                           [i \in 1..Len(sessionsMap) |-> sessionsMap[i].value]) :
                    sessionsMap \in {FoldLeft(groupItem, <<>>, rawList)}} : TRUE

\* lines 721-738: the session as reported when no attendance is attached
baseSession(s) ==
    [eventName |-> s.eventName,
     isoDate |-> s.date,
     startDate |-> s.date,
     endDate |-> s.endDate,
     attendees |-> s.attendees,
     zoomLink |-> s.location,
     zoomMeetingId |-> Empty,
     attendanceCount |-> Null,
     attendanceList |-> <<>>,
     attendanceRate |-> Null,
     externalAttendance |-> 0]

\* Array.prototype.reduce((sum, x) => sum + F(x), 0)
SumOver(F(_), s) == FoldLeft(LAMBDA sum, x : sum + F(x), 0, s)

\* lines 759-767: the totals of one collective
collectiveStat(name, sessions) ==
    [collective |-> name,
     totalUpcoming |-> SumOver(LAMBDA x : Len(x.attendees), sessions),
     totalAttendance |-> SumOver(LAMBDA x : IF x.attendanceCount = Null THEN 0
                                            ELSE x.attendanceCount, sessions),
     sessions |-> sessions]

(***************************************************************************)
(* Inputs of step D: scheduled events with the invitees fetched for them.  *)
(* An invitee is the object created at line 661; its identity is the pair  *)
(* <<event, position>>.                                                    *)
(***************************************************************************)
TitleMumbai ==   \* 'Mumbai Collective Webinar'
    <<"M","u","m","b","a","i"," ","C","o","l","l","e","c","t","i","v","e"," ","W","e","b","i","n","a","r">>

TitleBhopalUpper ==   \* 'BHOPAL webinar'
    <<"B","H","O","P","A","L"," ","w","e","b","i","n","a","r">>

TitleGeneric ==   \* 'Generic Call'
    <<"G","e","n","e","r","i","c"," ","C","a","l","l">>

TitleBhopalMumbai ==   \* 'Bhopal x Mumbai'
    <<"B","h","o","p","a","l"," ","x"," ","M","u","m","b","a","i">>

TitlePoomaaleHammiyala ==   \* 'Poomaale Hammiyala'
    <<"P","o","o","m","a","a","l","e"," ","H","a","m","m","i","y","a","l","a">>

Titles ==
    { TitleMumbai,
      TitleBhopalUpper,
      TitleGeneric,
      TitleBhopalMumbai,
      TitlePoomaaleHammiyala }

StartTimes == {1, 2}

EventShape == [name : Titles, start_time : StartTimes, n : 0..MaxInvitees]

WithInvitees(shapes) ==
    [i \in 1..Len(shapes) |->
        [id |-> i, name |-> shapes[i].name, start_time |-> shapes[i].start_time,
         end_time |-> Null, location |-> Empty,
         inviteeDetails |-> [k \in 1..shapes[i].n |-> <<i, k>>]]]

(***************************************************************************)
(* Specification SpecGroup: step D of processEvents, without attendance,   *)
(* applied to every bounded list of events.                                *)
(***************************************************************************)
InitGroup ==
    /\ pc = "input"
    /\ MatchIdle
    /\ DedupIdle
    /\ RateIdle
    /\ RequestIdle
    /\ \E shapes \in SeqsUpTo(EventShape, MaxEvents) : detailedEvents = WithInvitees(shapes)
    /\ webinars = <<>>
    /\ collectiveStats = <<>>

\* lines 700-768 for one collective, no attendance attached
collectiveWithoutAttendance(name, rawList) ==
    CHOOSE r \in {collectiveStat(name, [i \in 1..Len(sessions) |-> baseSession(sessions[i])]) :
                    sessions \in {groupSessions(rawList)}} : TRUE

StepD ==
    /\ pc = "input"
    /\ \E w \in {FoldLeft(classifyEvent, emptyWebinars, detailedEvents)} :
           /\ webinars' = w
           /\ collectiveStats' =
                 [n \in 1..Len(targetNames) |->
                     collectiveWithoutAttendance(targetNames[n], w[targetNames[n]])]
    /\ pc' = "done"
    /\ UNCHANGED <<detailedEvents, matchVars, dedupVars, rateVars, requestVars>>

NextGroup == StepD

SpecGroup == InitGroup /\ [][NextGroup]_vars

RECURSIVE Flatten(_)
Flatten(ss) == IF ss = <<>> THEN <<>> ELSE Head(ss) \o Flatten(Tail(ss))

\* the events of a collective, in input order
EventsOf(c) == SelectSeq(detailedEvents, LAMBDA e : collectiveOf(e.name) = c)

\* every invitee reported, over all sessions of all collectives
AllReported ==
    Flatten([n \in 1..Len(collectiveStats) |->
                Flatten([i \in 1..Len(collectiveStats[n].sessions) |->
                            collectiveStats[n].sessions[i].attendees])])

\* C5: within a collective there is exactly one session per distinct start
\* instant, its registrants are those of the events of that instant
\* concatenated in encounter order, and every registrant of a classified
\* event is in exactly one session's list.
C5_OneSessionPerStart ==
    pc = "done" =>
        /\ \A n \in 1..Len(targetNames) :
              \A evs \in {EventsOf(targetNames[n])} :
              \A ss \in {collectiveStats[n].sessions} :
                  /\ {ss[i].startDate : i \in 1..Len(ss)} = {evs[k].start_time : k \in 1..Len(evs)}
                  /\ \A i, j \in 1..Len(ss) : i # j => ss[i].startDate # ss[j].startDate
                  /\ \A i \in 1..Len(ss) :
                        \A same \in {SelectSeq(evs, LAMBDA e : e.start_time = ss[i].startDate)} :
                            ss[i].attendees =
                                Flatten([k \in 1..Len(same) |-> same[k].inviteeDetails])
        /\ \A all \in {AllReported} :
              \A e \in Range(detailedEvents) :
                  collectiveOf(e.name) # NoCollective =>
                      \A r \in Range(e.inviteeDetails) :
                          Cardinality({k \in 1..Len(all) : all[k] = r}) = 1

C5_Witness ==
    /\ pc = "done"
    /\ \E n \in 1..Len(collectiveStats) :
          \E i \in 1..Len(collectiveStats[n].sessions) :
              collectiveStats[n].sessions[i].attendees = << <<1, 1>>, <<1, 2>>, <<2, 1>> >>

\* the first name of the ordered list whose lower-case form is a substring of
\* the lower-cased title; 0 when there is none
FirstNameOfTitle ==
    [title \in Titles |->
        LET low == toLowerCase(title)
            hits == {n \in 1..Len(targetNames) :
                        \E i \in 1..Len(low), j \in 1..Len(low) :
                            SubSeq(low, i, j) = toLowerCase(targetNames[n])}
        IN  IF hits = {} THEN 0 ELSE SetMin(hits)]

FirstNameIn(title) == FirstNameOfTitle[title]

Unauthorized == 401      \* error.response.status === 401
OtherFailure == 500      \* any other failure (another status, or no response at all)
NoToken == 0             \* calendlyTokens.accessToken: null

Outcomes == {"ok", "unauthorized", "failure"}

\* line 513 passed: the first axios.get is awaited
newCall ==
    [stage |-> "first", attempts |-> 0, refreshes |-> 0,
     first |-> "none", refreshed |-> FALSE, result |-> "pending", error |-> 0]

\* lines 515-523: the outcome of the first axios.get
callFirst(call, outcome) ==
    CASE outcome = "ok" ->
            [call EXCEPT !.stage = "done", !.attempts = @ + 1, !.first = outcome,
                         !.result = "ok"]
      [] outcome = "unauthorized" ->
            [call EXCEPT !.stage = "refresh", !.attempts = @ + 1, !.first = outcome]
      [] OTHER ->
            [call EXCEPT !.stage = "done", !.attempts = @ + 1, !.first = outcome,
                         !.result = "throw", !.error = OtherFailure]

\* lines 523-531 and 488-509: refreshAccessToken returned a token, or null
\* (then the first error, a 401, is thrown again)
callRefresh(call, outcome) ==
    IF outcome = "ok"
    THEN [call EXCEPT !.stage = "retry", !.refreshes = @ + 1, !.refreshed = TRUE]
    ELSE [call EXCEPT !.stage = "done", !.refreshes = @ + 1,
                      !.result = "throw", !.error = Unauthorized]

\* lines 525-528: the outcome of the second axios.get, whose error leaves
\* the function as it is
callRetry(call, outcome) ==
    IF outcome = "ok"
    THEN [call EXCEPT !.stage = "done", !.attempts = @ + 1, !.result = "ok"]
    ELSE [call EXCEPT !.stage = "done", !.attempts = @ + 1, !.result = "throw",
                      !.error = IF outcome = "unauthorized" THEN Unauthorized
                                ELSE OtherFailure]

\* the next await of a call
callStep(call, outcome) ==
    CASE call.stage = "first" -> callFirst(call, outcome)
      [] call.stage = "refresh" -> callRefresh(call, outcome)
      [] call.stage = "retry" -> callRetry(call, outcome)

\* lines 500-502: the token pair after the step (Calendly rotates both tokens)
tokensAfter(tokens, call, outcome) ==
    IF call.stage = "refresh" /\ outcome = "ok"
    THEN [accessToken |-> tokens.accessToken + 1, refreshToken |-> tokens.refreshToken + 1]
    ELSE tokens

(***************************************************************************)
(* processEvents, attendance enrichment of one session (server.js          *)
(* 720-757), with extractZoomMeetingId (548-556).                          *)
(***************************************************************************)
Digits == {"0","1","2","3","4","5","6","7","8","9"}

\* the number of digits of s from position i on, at most max
DigitRun(s, i, max) ==
    LET ends == {k \in i..Len(s) : \A m \in i..k : s[m] \in Digits}
        n == IF ends = {} THEN 0 ELSE SetMax(ends) - i + 1
    IN  IF n > max THEN max ELSE n

\* the literal parts of /zoom\.us\/[jw]\/(\d+)/i
ZoomPaths == { <<"z","o","o","m",".","u","s","/","j","/">>, <<"z","o","o","m",".","u","s","/","w","/">> }

MinDigits == 9     \* /(\d{9,12})/
MaxDigits == 12    \* /(\d{9,12})/

extractZoomMeetingId(zoomUrl) ==
    IF zoomUrl = Empty THEN Empty
    ELSE \* the bound values are computed once
    CHOOSE r \in
      { LET atPath == {i \in 1..Len(zoomUrl) :
                          \E p \in ZoomPaths :
                              /\ i + Len(p) <= Len(zoomUrl)
                              /\ SubSeq(normalized, i, i + Len(p) - 1) = p
                              /\ zoomUrl[i + Len(p)] \in Digits}
            atDigits == {i \in 1..Len(normalized) :
                            DigitRun(normalized, i, MaxDigits) >= MinDigits}
        IN  IF atPath # {}
            THEN LET i == SetMin(atPath) + Len(CHOOSE p \in ZoomPaths : TRUE)
                 IN  SubSeq(zoomUrl, i, i + DigitRun(zoomUrl, i, Len(zoomUrl)) - 1)
            ELSE IF atDigits # {}
            THEN LET i == SetMin(atDigits)
                 IN  SubSeq(normalized, i, i + DigitRun(normalized, i, MaxDigits) - 1)
            ELSE Empty
        : normalized \in {toLowerCase(zoomUrl)} } : TRUE

\* A plausible slip: Math.floor in place of Math.round.
roundPercentFloor(count, n) == (100 * count) \div n

\* line 751: Math.round((count / n) * 100), for n > 0; Math.round rounds to
\* the nearest integer, a half upwards
roundPercent(count, n) == (200 * count + n) \div (2 * n)

\* what the request of fetchZoomParticipants can come to: no token from
\* getZoomAccessToken (line 368), or an outcome of the axios.get of line 375
ZoomOutcomes == Outcomes \cup {"noToken"}

\* lines 365-390: the request as a call record; there is one axios.get and
\* its error is caught (386-389), whatever its status
zoomCallOf(outcome) ==
    IF outcome = "noToken"
    THEN [newCall EXCEPT !.stage = "done", !.result = "empty"]
    ELSE [newCall EXCEPT !.stage = "done", !.attempts = 1, !.first = outcome,
                         !.result = IF outcome = "ok" THEN "ok" ELSE "empty"]

\* lines 365-400: the participants returned, given the provider's answer
fetchZoomParticipants(outcome, participants) ==
    IF outcome = "ok" THEN participants ELSE <<>>

\* lines 721-756: the async callback of the sessions' map, given what
\* fetchZoomParticipants returned
enrichSession(s, withAttendance, rawAttendanceOf) ==
    CHOOSE r \in
      { IF withAttendance /\ base.zoomLink # Empty /\ meetingId # Empty
        THEN CHOOSE e \in
               { [base EXCEPT
                    !.zoomMeetingId = meetingId,
                    !.attendanceList = m.matched,
                    !.attendanceCount = Len(m.matched),
                    !.externalAttendance = Len(m.external),
                    !.attendanceRate =
                        IF Len(base.attendees) > 0
                        THEN roundPercent(Len(m.matched), Len(base.attendees))
                        ELSE Null]
                 : m \in {matchAttendanceToRegistrants(
                             filterAndDedupAttendance(rawAttendanceOf, s.date, s.endDate),
                             s.attendees)} } : TRUE
        ELSE base
        : base \in {baseSession(s)}, meetingId \in {extractZoomMeetingId(s.location)} } : TRUE

(***************************************************************************)
(* Inputs of the enrichment: a session with the first nReg registrants of  *)
(* a roster, attended by the first nAtt persons of the roster and possibly *)
(* by one more participant.                                                *)
(***************************************************************************)
RosterEmail(k) == <<"r", ToString(k), "@", "x">>

RosterName(k) == <<"n", ToString(k)>>

UrlZoomJ ==   \* 'https://zoom.us/j/42?pwd=7'
    <<"h","t","t","p","s",":","/","/","z","o","o","m",".","u","s","/","j","/","4","2","?","p","w","d","=","7">>

UrlZoomUpperW ==   \* 'Zoom.US/W/7'
    <<"Z","o","o","m",".","U","S","/","W","/","7">>

UrlLongDigits ==   \* 'meet.example/1234567890123'
    <<"m","e","e","t",".","e","x","a","m","p","l","e","/","1","2","3","4","5","6","7","8","9","0","1","2","3">>

UrlNoId ==   \* 'zoom.us/my/room'
    <<"z","o","o","m",".","u","s","/","m","y","/","r","o","o","m">>

JoinUrls ==
    { Empty,              \* no location, or a location without join_url
      UrlZoomJ,
      UrlZoomUpperW,
      UrlLongDigits,
      UrlNoId }

RosterSession(nReg, url) ==
    [date |-> 10, endDate |-> 11,
     eventName |-> TitleMumbai, location |-> url,
     attendees |-> [k \in 1..nReg |->
                      [id |-> k, email |-> RosterEmail(k), name |-> RosterName(k)]]]

RosterParticipants(nAtt) ==
    [k \in 1..nAtt |->
        [id |-> k, email |-> RosterEmail(k), name |-> RosterName(k),
         joinTime |-> 10, duration |-> 10]]

(***************************************************************************)
(* Specification SpecRate: the enrichment of one session, for every        *)
(* bounded input.                                                          *)
(***************************************************************************)
InitRate ==
    /\ pc = "input"
    /\ MatchIdle
    /\ DedupIdle
    /\ GroupIdle
    /\ RequestIdle
    /\ \E nReg \in 0..MaxRoster, url \in JoinUrls : sessionIn = RosterSession(nReg, url)
    /\ includeAttendance \in [option : BOOLEAN, zoomConfigAvailable : BOOLEAN]
    /\ \E nAtt \in 0..MaxRoster, extra \in SeqsUpTo(Participant, 1) :
          zoomParticipants =
              RosterParticipants(nAtt)
                  \o [i \in 1..Len(extra) |->
                         [id |-> nAtt + i, email |-> extra[i].email, name |-> extra[i].name,
                          joinTime |-> extra[i].joinTime, duration |-> extra[i].duration]]
    /\ zoomCall = <<>>
    /\ sessionOut = <<>>

\* lines 740-742: fetchZoomParticipants is called for the session
fetchesAttendance(s, withAttendance) ==
    withAttendance /\ s.location # Empty /\ extractZoomMeetingId(s.location) # Empty

Enrich ==
    /\ pc = "input"
    /\ \E withAttendance \in {includeAttendance.option
                                /\ includeAttendance.zoomConfigAvailable} :
         IF fetchesAttendance(sessionIn, withAttendance)
         THEN \E outcome \in ZoomOutcomes :
                /\ zoomCall' = zoomCallOf(outcome)
                /\ sessionOut' = enrichSession(sessionIn, withAttendance,
                                     fetchZoomParticipants(outcome, zoomParticipants))
         ELSE /\ zoomCall' = zoomCall
              /\ sessionOut' = enrichSession(sessionIn, withAttendance, <<>>)
    /\ pc' = "enriched"
    /\ UNCHANGED <<sessionIn, includeAttendance, zoomParticipants,
                   matchVars, dedupVars, groupVars, requestVars>>

NextRate == Enrich

SpecRate == InitRate /\ [][NextRate]_vars

\* n is x rounded to the nearest integer, a half upwards, for x = num / den
IsRounded(n, num, den) == 2 * den * n - den <= 2 * num /\ 2 * num < 2 * den * n + den

StatusOk == 200              \* res.json
StatusNotConnected == 400    \* 'Calendly not connected'
StatusAuthExpired == 401     \* 'Authentication expired'
StatusFailed == 500          \* 'Failed to fetch data'

RequestTitles == {TitleMumbai, TitleBhopalMumbai, TitleGeneric}

\* what the provider may return for scheduled_events with min_start_time:
\* events starting after it, ascending (sort: 'start_time:asc')
EventLists(minStart) ==
    {evs \in SeqsUpTo([name : RequestTitles, start_time : 0..(MaxTime + 1)],
                      MaxRequestEvents) :
        /\ \A i \in 1..Len(evs) : evs[i].start_time > minStart
        /\ \A i \in 1..(Len(evs) - 1) : evs[i].start_time <= evs[i + 1].start_time}

\* lines 654-660: a branch of Promise.all, awaiting its first page
newBranch ==
    [call |-> newCall, page |-> 1, allInvitees |-> <<>>,
     done |-> FALSE, inviteeDetails |-> <<>>]

\* lines 661-676: a page arrived: n invitees, and a next_page or none
branchPage(b, i, call, n, hasNext) ==
    LET got == b.allInvitees
                 \o [k \in 1..n |-> <<i, Len(b.allInvitees) + k>>]
    IN  IF hasNext
        THEN [b EXCEPT !.call = newCall, !.page = @ + 1, !.allInvitees = got]
        ELSE [b EXCEPT !.call = call, !.allInvitees = got,
                       !.done = TRUE, !.inviteeDetails = got]

\* A plausible slip: the catch returns the pages gathered before the failure.
branchCaughtKeepsPages(b, call) ==
    [b EXCEPT !.call = call, !.done = TRUE, !.inviteeDetails = b.allInvitees]

\* lines 677-680: the catch of the branch
branchCaught(b, call) ==
    [b EXCEPT !.call = call, !.done = TRUE, !.inviteeDetails = <<>>]

\* line 719 applied to the reported sessions: sort by isoDate, stable
sortIsoInsert(sorted, x) ==
    LET before == {i \in 1..Len(sorted) : sorted[i].isoDate - x.isoDate <= 0}
        k == IF before = {} THEN 0 ELSE SetMax(before)
    IN  SubSeq(sorted, 1, k) \o <<x>> \o SubSeq(sorted, k + 1, Len(sorted))

\* lines 794-813: the body sent; nextSession is the list of no session
\* (null) or of the one session
globalStatsOf(stats) ==
    CHOOSE r \in
      { [totalParticipants |-> SumOver(LAMBDA c : c.totalUpcoming, stats),
         totalAttendance |-> SumOver(LAMBDA c : c.totalAttendance, stats),
         nextSession |-> IF Len(allSessions) > 0 THEN <<allSessions[1]>> ELSE <<>>,
         totalSessions |-> Len(allSessions)]
        : allSessions \in
            {FoldLeft(sortIsoInsert, <<>>,
                      Flatten([n \in 1..Len(stats) |-> stats[n].sessions]))} } : TRUE

\* lines 683-770 with includeAttendance false
processedEvents(detailed) ==
    CHOOSE r \in
      { [n \in 1..Len(targetNames) |->
            collectiveWithoutAttendance(targetNames[n], w[targetNames[n]])]
        : w \in {FoldLeft(classifyEvent, emptyWebinars, detailed)} } : TRUE

(***************************************************************************)
(* Specification SpecRequest: one GET /api/webinars request served.        *)
(***************************************************************************)
InitRequest ==
    /\ pc = "idle"
    /\ MatchIdle
    /\ DedupIdle
    /\ GroupIdle
    /\ RateIdle
    /\ now = 0
    /\ calendlyTokens \in {[accessToken |-> NoToken, refreshToken |-> NoToken],
                           [accessToken |-> 1, refreshToken |-> 1]}
    /\ mainCall = <<>>
    /\ minStartTime = Null
    /\ events = <<>>
    /\ branches = <<>>
    /\ response = <<>>
    /\ provider = <<>>
    /\ pageSource = <<>>
    /\ pager = <<>>
    /\ ZoomTokenIdle

\* what the handler of GET /api/webinars, as modelled here, leaves alone
otherVars == <<matchVars, dedupVars, groupVars, rateVars, provider, pageSource, pager,
               zoomTokenVars>>

\* lines 773-780: the handler starts; without a token it answers 400
StartRequest ==
    /\ pc = "idle"
    /\ IF calendlyTokens.accessToken = NoToken
       THEN /\ response' = [status |-> StatusNotConnected]
            /\ pc' = "responded"
            /\ UNCHANGED mainCall
       ELSE /\ mainCall' = newCall
            /\ pc' = "userMe"
            /\ UNCHANGED response
    /\ UNCHANGED <<now, calendlyTokens, minStartTime, events, branches, otherVars>>

\* lines 780-792 and 815-821: an await of the users/me or scheduled_events
\* call returns
MainStep ==
    /\ pc \in {"userMe", "events"}
    /\ \E outcome \in Outcomes :
         \E call \in {callStep(mainCall, outcome)} :
           /\ calendlyTokens' = tokensAfter(calendlyTokens, mainCall, outcome)
           /\ CASE call.stage # "done" ->
                     /\ mainCall' = call
                     /\ UNCHANGED <<pc, minStartTime, events, branches, response>>
                [] call.result = "throw" ->
                     /\ mainCall' = call
                     /\ response' = [status |-> IF call.error = Unauthorized
                                                THEN StatusAuthExpired ELSE StatusFailed]
                     /\ pc' = "responded"
                     /\ UNCHANGED <<minStartTime, events, branches>>
                [] call.result = "ok" /\ pc = "userMe" ->
                     /\ mainCall' = newCall
                     /\ minStartTime' = now
                     /\ pc' = "events"
                     /\ UNCHANGED <<events, branches, response>>
                [] call.result = "ok" /\ pc = "events" ->
                     /\ mainCall' = call
                     /\ \E evs \in EventLists(minStartTime) :
                          /\ events' = [i \in 1..Len(evs) |->
                                          [id |-> i, name |-> evs[i].name,
                                           start_time |-> evs[i].start_time,
                                           end_time |-> Null, location |-> Empty]]
                          /\ branches' = [i \in 1..Len(evs) |-> newBranch]
                     /\ pc' = "invitees"
                     /\ UNCHANGED <<minStartTime, response>>
    /\ UNCHANGED <<now, otherVars>>

\* lines 652-681: an await of the invitee fetch of event i returns
BranchStep ==
    /\ pc = "invitees"
    /\ \E i \in 1..Len(branches), outcome \in Outcomes :
         /\ ~branches[i].done
         /\ \E call \in {callStep(branches[i].call, outcome)} :
              /\ calendlyTokens' = tokensAfter(calendlyTokens, branches[i].call, outcome)
              /\ CASE call.stage # "done" ->
                     branches' = [branches EXCEPT ![i].call = call]
                [] call.result = "throw" ->
                     branches' = [branches EXCEPT ![i] = branchCaught(@, call)]
                [] call.result = "ok" ->
                     \E n \in 0..1, hasNext \in BOOLEAN :
                          /\ hasNext => branches[i].page < MaxPages
                          /\ branches' =
                                [branches EXCEPT ![i] = branchPage(@, i, call, n, hasNext)]
    /\ UNCHANGED <<pc, now, mainCall, minStartTime, events, response, otherVars>>

\* lines 683-813: every branch has settled; the statistics are computed and sent
Respond ==
    /\ pc = "invitees"
    /\ \A i \in 1..Len(branches) : branches[i].done
    /\ \E stats \in {processedEvents(
                        [i \in 1..Len(events) |->
                            [id |-> events[i].id, name |-> events[i].name,
                             start_time |-> events[i].start_time,
                             end_time |-> events[i].end_time,
                             location |-> events[i].location,
                             inviteeDetails |-> branches[i].inviteeDetails]])} :
         response' = [status |-> StatusOk, collectives |-> stats,
                      globalStats |-> globalStatsOf(stats), sentAt |-> now]
    /\ pc' = "responded"
    /\ UNCHANGED <<now, calendlyTokens, mainCall, minStartTime, events, branches,
                   otherVars>>

\* time passes while the handler awaits the provider
Tick ==
    /\ pc \in {"userMe", "events", "invitees"}
    /\ now < MaxTime
    /\ now' = now + 1
    /\ UNCHANGED <<pc, calendlyTokens, mainCall, minStartTime, events, branches,
                   response, otherVars>>

NextRequest == StartRequest \/ MainStep \/ BranchStep \/ Respond \/ Tick

SpecRequest == InitRequest /\ [][NextRequest]_vars

\* C8: the session reported as nextSession starts after the instant at which
\* the statistics are computed.
C8_NextSessionInFuture ==
    (pc = "responded" /\ response.status = StatusOk) =>
        \A s \in Range(response.globalStats.nextSession) : s.isoDate > now

\* the authenticated provider calls under way or finished: the handler's
\* makeCalendlyRequest call, the last one of every invitee fetch, and the
\* request of fetchZoomParticipants
Calls ==
    (IF mainCall = <<>> THEN {} ELSE {mainCall})
        \cup {branches[i].call : i \in 1..Len(branches)}
        \cup (IF zoomCall = <<>> THEN {} ELSE {zoomCall})

\* C9: a call whose first attempt was answered 401 refreshed the credential
\* and was retried exactly once, and no call makes more than two attempts or
\* more than one refresh.
C9_UnauthorizedAlwaysRetried ==
    \A c \in Calls :
        /\ c.attempts <= 2
        /\ c.refreshes <= 1
        /\ (c.stage = "done" /\ c.first = "unauthorized") =>
              /\ c.refreshes = 1
              /\ c.attempts = 2

\* C10: a request during which an authenticated call ended in an unrecovered
\* 401 does not send a normal statistics result.
C10_Unrecovered401NotOk ==
    (pc = "responded" /\ \E c \in Calls : c.result = "throw" /\ c.error = Unauthorized)
        => response.status # StatusOk

\* collectiveOf, tabulated over the titles of the pool
collectiveOfTitle == [t \in Titles |-> collectiveOf(t)]

\* what the invitee fetch of event i contributes: nothing when it failed,
\* and otherwise the pages the provider returned for the event
fetchedOf(i) ==
    IF branches[i].call.result = "throw" THEN <<>> ELSE branches[i].allInvitees

C11_AttendanceFailureIsEmpty ==
    (pc = "enriched" /\ zoomCall # <<>> /\ zoomCall.result = "empty") =>
        /\ sessionOut.attendanceList = <<>>
        /\ sessionOut.attendanceCount = 0
        /\ sessionOut.externalAttendance = 0
        /\ sessionOut.attendees = sessionIn.attendees

(***************************************************************************)
(* The invitee fetches of processEvents (server.js 652-681) against a      *)
(* provider whose answers are fixed by the tokens presented: a request is  *)
(* accepted with an access token the provider has issued and not expired;  *)
(* a refresh is accepted with the current refresh token and rotates it     *)
(* (line 501).  Every await is two steps: the provider answers the request *)
(* in flight, and the branch resumes with the answer.  The tokens a        *)
(* request carries are read when it is sent (lines 517, 496).              *)
(***************************************************************************)
MaxBranches == 2     \* events whose invitees are fetched concurrently

NoAnswer == <<>>

\* line 517 / 526: the request of a page, carrying the access token given
sendPage(b, accessToken) ==
    [b EXCEPT !.stage = IF b.stage = "refresh" THEN "retry" ELSE "first",
              !.sent = accessToken, !.answer = NoAnswer]

\* lines 654-660: the branch of an event, its first request sent
raceBranch(tokens) ==
    [stage |-> "first", sent |-> tokens.accessToken, answer |-> NoAnswer,
     page |-> 1, allInvitees |-> <<>>, done |-> FALSE, inviteeDetails |-> <<>>]

\* the provider's answer to the request in flight of a branch
answerOf(b, p) ==
    IF b.stage = "refresh"
    THEN IF b.sent = p.refreshToken
         THEN [status |-> "ok",
               tokens |-> [accessToken |-> p.refreshToken + 1,
                           refreshToken |-> p.refreshToken + 1]]
         ELSE [status |-> "failure", tokens |-> <<>>]
    ELSE IF b.sent \in p.accessTokens
         THEN [status |-> "ok", tokens |-> <<>>]
         ELSE [status |-> "unauthorized", tokens |-> <<>>]

\* the provider after the answer: an accepted refresh issues a token pair
providerAfter(b, p) ==
    IF b.stage = "refresh" /\ b.sent = p.refreshToken
    THEN [accessTokens |-> p.accessTokens \cup {p.refreshToken + 1},
          refreshToken |-> p.refreshToken + 1]
    ELSE p

\* lines 661-676: a page arrived (one invitee a page); the next page is
\* requested with the access token of the moment (513-518)
pageArrived(b, i, pages, tokens) ==
    LET got == Append(b.allInvitees, <<i, b.page>>)
    IN  IF b.page < pages
        THEN [sendPage([b EXCEPT !.stage = "first"], tokens.accessToken)
                 EXCEPT !.page = b.page + 1, !.allInvitees = got]
        ELSE [b EXCEPT !.answer = NoAnswer, !.allInvitees = got,
                       !.done = TRUE, !.inviteeDetails = got]

\* lines 677-680
raceCaught(b) ==
    [b EXCEPT !.answer = NoAnswer, !.done = TRUE, !.inviteeDetails = <<>>]

\* lines 512-533 and 488-509: the branch resumes with the answer
resumed(b, i, pages, tokens) ==
    CASE b.stage = "first" /\ b.answer.status = "ok" -> pageArrived(b, i, pages, tokens)
      [] b.stage = "first" /\ b.answer.status = "unauthorized" ->
            \* line 523: refreshAccessToken sends calendlyTokens.refreshToken
            [b EXCEPT !.stage = "refresh", !.sent = tokens.refreshToken,
                      !.answer = NoAnswer]
      [] b.stage = "first" -> raceCaught(b)
      [] b.stage = "refresh" /\ b.answer.status = "ok" ->
            sendPage(b, b.answer.tokens.accessToken)
      [] b.stage = "refresh" -> raceCaught(b)
      [] b.stage = "retry" /\ b.answer.status = "ok" -> pageArrived(b, i, pages, tokens)
      [] b.stage = "retry" -> raceCaught(b)

\* lines 500-502: the token pair after the branch resumed
tokensResumed(b, tokens) ==
    IF b.stage = "refresh" /\ b.answer.status = "ok" THEN b.answer.tokens ELSE tokens

(***************************************************************************)
(* Specification SpecRace: processEvents fetching the invitees of up to    *)
(* MaxBranches events, the stored access token being valid or expired.     *)
(***************************************************************************)
InitRace ==
    /\ pc = "fetching"
    /\ MatchIdle
    /\ DedupIdle
    /\ GroupIdle
    /\ RateIdle
    /\ now = 0
    /\ mainCall = <<>>
    /\ minStartTime = Null
    /\ response = <<>>
    /\ pageSource = <<>>
    /\ pager = <<>>
    /\ ZoomTokenIdle
    /\ calendlyTokens = [accessToken |-> 1, refreshToken |-> 1]
    /\ provider \in [accessTokens : {{}, {1}}, refreshToken : {0, 1}]
    /\ \E n \in 1..MaxBranches :
         /\ events \in [1..n -> [pages : 1..MaxPages]]
         /\ branches = [i \in 1..n |-> raceBranch(calendlyTokens)]

raceOtherVars == <<now, mainCall, minStartTime, response, events, pageSource, pager,
                   zoomTokenVars, matchVars, dedupVars, groupVars, rateVars>>

\* the provider answers the request in flight of branch i
ProviderAnswers ==
    /\ pc = "fetching"
    /\ \E i \in 1..Len(branches) :
         /\ ~branches[i].done
         /\ branches[i].answer = NoAnswer
         /\ branches' = [branches EXCEPT ![i].answer = answerOf(branches[i], provider)]
         /\ provider' = providerAfter(branches[i], provider)
    /\ UNCHANGED <<pc, calendlyTokens, raceOtherVars>>

\* branch i resumes after its await
BranchResumes ==
    /\ pc = "fetching"
    /\ \E i \in 1..Len(branches) :
         /\ branches[i].answer # NoAnswer
         /\ branches' = [branches EXCEPT
                            ![i] = resumed(@, i, events[i].pages, calendlyTokens)]
         /\ calendlyTokens' = tokensResumed(branches[i], calendlyTokens)
    /\ UNCHANGED <<pc, provider, raceOtherVars>>

\* line 652: Promise.all resolves with detailedEvents
Joined ==
    /\ pc = "fetching"
    /\ \A i \in 1..Len(branches) : branches[i].done
    /\ pc' = "joined"
    /\ UNCHANGED <<branches, provider, calendlyTokens, raceOtherVars>>

NextRace == ProviderAnswers \/ BranchResumes \/ Joined

SpecRace == InitRace /\ [][NextRace]_vars

\* the invitees the provider holds for event i
pagesOf(i) == [k \in 1..events[i].pages |-> <<i, k>>]

\* C12: the result of the invitee fetches is fixed by the provider's side
\* and not by the order in which the concurrent calls complete: when the
\* stored access token or the stored refresh token was valid every event
\* has its invitees, as when the fetches run one after the other, and
\* otherwise none has.
C12_ResultIndependentOfOrder ==
    pc = "joined" =>
        \A i \in 1..Len(branches) :
            branches[i].inviteeDetails =
                IF 1 \in provider.accessTokens \/ provider.refreshToken >= 1
                THEN pagesOf(i) ELSE <<>>

(***************************************************************************)
(* The bodies sent by GET /api/webinars (server.js 794-813) and by         *)
(* GET /api/webinars/past (840-848), given the events the provider listed  *)
(* with the invitees fetched for them.  The events carry no join URL, so   *)
(* that no attendance is attached on either endpoint (line 740).           *)
(***************************************************************************)
\* lines 842-848: the global statistics of the past endpoint
pastGlobalStatsOf(stats, collection) ==
    [totalParticipants |-> SumOver(LAMBDA c : c.totalUpcoming, stats),
     totalAttendance |-> SumOver(LAMBDA c : c.totalAttendance, stats),
     totalSessions |-> Len(collection)]

InitStats ==
    /\ pc = "input"
    /\ MatchIdle
    /\ DedupIdle
    /\ RateIdle
    /\ RequestIdle
    /\ \E shapes \in SeqsUpTo(EventShape, MaxEvents) : detailedEvents = WithInvitees(shapes)
    /\ webinars = <<>>
    /\ collectiveStats = <<>>

statsOtherVars == <<detailedEvents, webinars, matchVars, dedupVars, rateVars,
                    now, calendlyTokens, mainCall, minStartTime, events, branches,
                    provider, pageSource, pager, zoomTokenVars>>

\* lines 794-813: GET /api/webinars from processEvents on
SendUpcoming ==
    /\ pc = "input"
    /\ \E stats \in {processedEvents(detailedEvents)} :
         /\ collectiveStats' = stats
         /\ response' = [status |-> StatusOk, endpoint |-> "upcoming",
                         collectives |-> stats, globalStats |-> globalStatsOf(stats)]
    /\ pc' = "responded"
    /\ UNCHANGED statsOtherVars

\* lines 840-848: GET /api/webinars/past from processEvents on
SendPast ==
    /\ pc = "input"
    /\ \E stats \in {processedEvents(detailedEvents)} :
         /\ collectiveStats' = stats
         /\ response' = [status |-> StatusOk, endpoint |-> "past",
                         collectives |-> stats,
                         globalStats |-> pastGlobalStatsOf(stats, detailedEvents)]
    /\ pc' = "responded"
    /\ UNCHANGED statsOtherVars

NextStats == SendUpcoming \/ SendPast

SpecStats == InitStats /\ [][NextStats]_vars

\* the sessions of all cohorts of the response
sessionsReported ==
    Flatten([n \in 1..Len(response.collectives) |-> response.collectives[n].sessions])

\* C13: the session count of the global statistics is the number of
\* sessions over all cohorts of the same response, on both endpoints.
C13_TotalSessionsIsSessionCount ==
    pc = "responded" =>
        response.globalStats.totalSessions = Len(sessionsReported)

(***************************************************************************)
(* The matcher's classification, record by record.                         *)
(***************************************************************************)
\* record k is matched through its email: the email is a registrant's and no
\* earlier record carries it
matchedByEmail(k) ==
    \E e \in {normalizeEmail(attendanceList[k].email)} :
        /\ e # <<>>
        /\ \E r \in Range(registrants) : normalizeEmail(r.email) = e
        /\ \A j \in 1..(k - 1) : normalizeEmail(attendanceList[j].email) # e

\* record k is matched through its name: not through its email, the name is
\* a registrant's, and no earlier record that was not matched through its
\* email carries it
matchedByName(k) ==
    \E n \in {normalizeName(attendanceList[k].name)} :
        /\ ~matchedByEmail(k)
        /\ n # <<>>
        /\ \E r \in Range(registrants) : normalizeName(r.name) = n
        /\ \A j \in 1..(k - 1) :
              matchedByEmail(j) \/ normalizeName(attendanceList[j].name) # n

\* C14: the matched list is the records matched through their email or,
\* failing that, their name, each identity serving the first record only,
\* and the external list is the other records, both in input order.
C14_EmailBeforeNameConsuming ==
    pc = "matched" =>
        \E hit \in {{k \in 1..Len(attendanceList) :
                        matchedByEmail(k) \/ matchedByName(k)}} :
            /\ matched = SelectSeq(attendanceList, LAMBDA a : a.id \in hit)
            /\ external = SelectSeq(attendanceList, LAMBDA a : a.id \notin hit)

\* two records carry the email of one registrant: the first is matched, the
\* second is not
C14_Witness ==
    /\ pc = "matched"
    /\ Len(attendanceList) = 2
    /\ normalizeEmail(attendanceList[1].email) = normalizeEmail(attendanceList[2].email)
    /\ matchedByEmail(1)
    /\ matched = <<attendanceList[1]>>
    /\ external = <<attendanceList[2]>>

(***************************************************************************)
(* The deduplicator's choice of record, its output order and its filter.   *)
(***************************************************************************)
\* the positions of the input records that share the identity key of r
sharing(r) ==
    {i \in 1..Len(rawAttendance) : identityKey(rawAttendance[i]) = identityKey(r)}

\* among them, the first of greatest duration
longestOf(r) ==
    SetMin({i \in sharing(r) :
               \A j \in sharing(r) :
                   durationOrZero(rawAttendance[j]) <= durationOrZero(rawAttendance[i])})

\* C15: of the input records that share an identity key the output holds
\* one, the first of those with the greatest duration (a missing duration
\* counting as 0).
C15_RetainsLongest ==
    pc = "deduped" =>
        \A r \in Range(rawAttendance) :
            {d \in Range(deduped) : identityKey(d) = identityKey(r)}
                = {rawAttendance[longestOf(r)]}

\* C16: the output lists the retained records in the order in which their
\* identity keys first occur in the input.
C16_FirstOccurrenceOrder ==
    pc = "deduped" =>
        \A i, j \in 1..Len(deduped) :
            i < j => SetMin(sharing(deduped[i])) < SetMin(sharing(deduped[j]))

\* C17: no record is dropped for its join time: every identity key of the
\* input is the key of a record of the output.
C17_NoJoinTimeWindow ==
    pc = "deduped" =>
        \A r \in Range(rawAttendance) :
            \E d \in Range(deduped) : identityKey(d) = identityKey(r)

(***************************************************************************)
(* The two pagination loops: the invitee pages of an event (server.js      *)
(* 655-680) and the participant pages of a meeting (370-390).  The         *)
(* provider holds the list as pages; the continuation of a page is the     *)
(* number of the next page, 0 when there is none.  A page may lack its     *)
(* array (a malformed answer), and a request may fail.                     *)
(***************************************************************************)
MaxLoopPages == 3    \* pages of a paginated list
MaxPageItems == 2    \* items of one page

NoPage == 0          \* url = null / nextPageToken = null

\* the answer to the request of page k: its items, tagged with their place,
\* and its continuation
pageAt(k) ==
    [isArray |-> pageSource[k] # Null,
     items |-> IF pageSource[k] = Null THEN <<>>
               ELSE [j \in 1..pageSource[k] |-> <<k, j>>],
     next |-> IF k < Len(pageSource) THEN k + 1 ELSE NoPage]

\* lines 656-660 and 370-371: the loop before its first request
newPager(kind) ==
    [kind |-> kind, url |-> 1, list |-> <<>>, requests |-> <<>>,
     status |-> "awaiting", failed |-> FALSE, result |-> <<>>]

\* the loop left by its catch: lines 677-680, and 386-389
pagerCaught(p) ==
    [p EXCEPT !.requests = Append(@, p.url), !.status = "returned",
              !.failed = TRUE, !.result = <<>>]

\* the loop after a page: on when the page has a continuation, and
\* otherwise returned with the list
pagerOn(p, list, next) ==
    IF next # NoPage
    THEN [p EXCEPT !.requests = Append(@, p.url), !.url = next, !.list = list]
    ELSE [p EXCEPT !.requests = Append(@, p.url), !.url = NoPage, !.list = list,
                   !.status = "returned", !.result = list]

\* A plausible slip: the page is assigned where it should be concatenated.
inviteePageReplaces(p, page, outcome) ==
    IF outcome # "ok" \/ ~page.isArray
    THEN pagerCaught(p)
    ELSE pagerOn(p, page.items, page.next)

\* lines 661-676: one turn of while (url); a collection that is no array
\* makes .map throw
inviteePage(p, page, outcome) ==
    IF outcome # "ok" \/ ~page.isArray
    THEN pagerCaught(p)
    ELSE pagerOn(p, p.list \o page.items, page.next)

\* lines 374-385: one turn of do ... while (nextPageToken); participants
\* that are no array are skipped
participantPage(p, page, outcome) ==
    IF outcome # "ok"
    THEN pagerCaught(p)
    ELSE pagerOn(p, IF page.isArray THEN p.list \o page.items ELSE p.list, page.next)

(***************************************************************************)
(* Specification SpecPages: one loop run against every bounded list of     *)
(* pages.  The await of a request returns: weak fairness of the step.      *)
(***************************************************************************)
InitPages ==
    /\ pc = "paging"
    /\ MatchIdle
    /\ DedupIdle
    /\ GroupIdle
    /\ RateIdle
    /\ now = 0
    /\ calendlyTokens = <<>>
    /\ mainCall = <<>>
    /\ minStartTime = Null
    /\ events = <<>>
    /\ branches = <<>>
    /\ response = <<>>
    /\ provider = <<>>
    /\ ZoomTokenIdle
    /\ pageSource \in SeqsUpTo((0..MaxPageItems) \cup {Null}, MaxLoopPages) \ {<<>>}
    /\ pager \in {newPager("invitees"), newPager("participants")}

pagesOtherVars == <<pageSource, matchVars, dedupVars, groupVars, rateVars,
                    now, calendlyTokens, mainCall, minStartTime, events, branches,
                    response, provider, zoomTokenVars>>

\* line 662: the await of an invitee page returns or throws
InviteePage ==
    /\ pc = "paging"
    /\ pager.kind = "invitees"
    /\ \E outcome \in {"ok", "failure"} :
         pager' = inviteePage(pager, pageAt(pager.url), outcome)
    /\ pc' = IF pager'.status = "returned" THEN "paged" ELSE pc
    /\ UNCHANGED pagesOtherVars

\* line 375: the await of a participant page returns or throws
ParticipantPage ==
    /\ pc = "paging"
    /\ pager.kind = "participants"
    /\ \E outcome \in {"ok", "failure"} :
         pager' = participantPage(pager, pageAt(pager.url), outcome)
    /\ pc' = IF pager'.status = "returned" THEN "paged" ELSE pc
    /\ UNCHANGED pagesOtherVars

NextPages == InviteePage \/ ParticipantPage

SpecPages == InitPages /\ [][NextPages]_vars /\ WF_vars(NextPages)

\* the items of all pages, in page order
allPages == Flatten([k \in 1..Len(pageSource) |-> pageAt(k).items])

\* the pages are requested in turn, each with the continuation of the one
\* before; the loop goes on exactly while the last page had a continuation;
\* returning without error it returns all pages in page order
PagerInTurn ==
    /\ pager.requests = [k \in 1..Len(pager.requests) |-> k]
    /\ pager.status = "awaiting" =>
          /\ pager.url = Len(pager.requests) + 1
          /\ pager.url <= Len(pageSource)
    /\ (pager.status = "returned" /\ ~pager.failed) =>
          /\ Len(pager.requests) = Len(pageSource)
          /\ pager.result = allPages

\* C18: both loops request the pages in turn and stop at the page without
\* continuation, return the pages concatenated in page order when no
\* request failed, and come to an end.
C18_PaginationInTurnAndEnds ==
    /\ [](pc \in {"paging", "paged"} => PagerInTurn)
    /\ <>(pc = "paged")

\* three pages of invitees, all fetched
C18_Witness ==
    /\ pc = "paged"
    /\ pager.kind = "invitees"
    /\ ~pager.failed
    /\ pager.requests = <<1, 2, 3>>
    /\ Len(pager.result) >= 3

(***************************************************************************)
(* getZoomAccessToken (server.js 335-363) with zoomTokenCache (287).  The  *)
(* unit of time is 20 s.  A call reads the clock and the cache when it     *)
(* starts; when it requests a token it is suspended until the provider     *)
(* answers, and other calls run meanwhile.  The token a call obtains is    *)
(* named by the call.                                                      *)
(***************************************************************************)
MaxTokenCalls == 3   \* calls of getZoomAccessToken
MaxClock == 3        \* ticks of the clock

SixtySeconds == 3        \* 60000 ms
DefaultExpiresIn == 175  \* 3500 s
NoZoomToken == 0         \* token: null

\* response.data.expires_in: missing, 40 s or 100 s
ExpiresIn == {Null, 2, 5}

\* A plausible slip: the test without its margin of 60 s.
cacheFreshNoMargin(cache, t) ==
    cache.token # NoZoomToken /\ cache.expiresAt > t

\* line 340: the cached token is still good at t
cacheFresh(cache, t) ==
    cache.token # NoZoomToken /\ cache.expiresAt - SixtySeconds > t

idleCall ==
    [status |-> "idle", now |-> Null, seen |-> <<>>, fromCache |-> FALSE,
     requested |-> FALSE, failed |-> FALSE, result |-> NoZoomToken]

\* lines 336-343: the call up to its return or its await
callStarted(configured, cache, t) ==
    IF ~configured
    THEN [idleCall EXCEPT !.status = "returned", !.now = t, !.seen = cache]
    ELSE IF cacheFresh(cache, t)
    THEN [idleCall EXCEPT !.status = "returned", !.now = t, !.seen = cache,
                          !.fromCache = TRUE, !.result = cache.token]
    ELSE [idleCall EXCEPT !.status = "requesting", !.now = t, !.seen = cache,
                          !.requested = TRUE]

\* lines 354-357: the cache written with the token obtained
cacheAfter(call, token, expiresIn) ==
    [token |-> token,
     expiresAt |-> call.now + (IF expiresIn = Null THEN DefaultExpiresIn ELSE expiresIn)]

(***************************************************************************)
(* Specification SpecZoomToken: up to MaxTokenCalls calls, started at any  *)
(* time, with or without the provider's credentials configured.            *)
(***************************************************************************)
InitZoomToken ==
    /\ pc = "serving"
    /\ MatchIdle
    /\ DedupIdle
    /\ GroupIdle
    /\ RateIdle
    /\ now = 0
    /\ calendlyTokens = <<>>
    /\ mainCall = <<>>
    /\ minStartTime = Null
    /\ events = <<>>
    /\ branches = <<>>
    /\ response = <<>>
    /\ provider = <<>>
    /\ pageSource = <<>>
    /\ pager = <<>>
    /\ zoomCreds \in [available : BOOLEAN]
    /\ zoomTokenCache = [token |-> NoZoomToken, expiresAt |-> 0]
    /\ tokenCalls = [i \in 1..MaxTokenCalls |-> idleCall]

zoomTokenOtherVars == <<pc, zoomCreds, matchVars, dedupVars, groupVars, rateVars,
                        calendlyTokens, mainCall, minStartTime, events, branches,
                        response, provider, pageSource, pager>>

\* lines 335-343: a call starts
TokenCallStarts ==
    /\ \E i \in 1..Len(tokenCalls) :
         /\ tokenCalls[i].status = "idle"
         /\ tokenCalls' = [tokenCalls EXCEPT
                              ![i] = callStarted(zoomCreds.available, zoomTokenCache, now)]
    /\ UNCHANGED <<now, zoomTokenCache, zoomTokenOtherVars>>

\* lines 344-358: the token request of a call is answered
TokenCallAnswered ==
    /\ \E i \in 1..Len(tokenCalls), expiresIn \in ExpiresIn :
         /\ tokenCalls[i].status = "requesting"
         /\ zoomTokenCache' = cacheAfter(tokenCalls[i], i, expiresIn)
         /\ tokenCalls' = [tokenCalls EXCEPT ![i].status = "returned", ![i].result = i]
    /\ UNCHANGED <<now, zoomTokenOtherVars>>

\* lines 359-362: the token request of a call fails
TokenCallFails ==
    /\ \E i \in 1..Len(tokenCalls) :
         /\ tokenCalls[i].status = "requesting"
         /\ tokenCalls' = [tokenCalls EXCEPT ![i].status = "returned",
                                             ![i].failed = TRUE,
                                             ![i].result = NoZoomToken]
    /\ UNCHANGED <<now, zoomTokenCache, zoomTokenOtherVars>>

ClockTicks ==
    /\ pc = "serving"
    /\ zoomCreds # <<>>
    /\ now < MaxClock
    /\ now' = now + 1
    /\ UNCHANGED <<zoomTokenCache, tokenCalls, zoomTokenOtherVars>>

NextZoomToken == TokenCallStarts \/ TokenCallAnswered \/ TokenCallFails \/ ClockTicks

SpecZoomToken == InitZoomToken /\ [][NextZoomToken]_vars

\* a call that returned the cached token found its expiry more than 60 s
\* after its own time, and every call returned null after a failed request
cachedOnlyWhenFresh ==
    \A i \in 1..Len(tokenCalls) :
        \E c \in {tokenCalls[i]} :
            /\ c.fromCache =>
                  /\ ~c.requested
                  /\ c.seen.token # NoZoomToken
                  /\ c.seen.expiresAt > c.now + SixtySeconds
                  /\ c.result = c.seen.token
            /\ c.failed => (c.status = "returned" /\ c.result = NoZoomToken)

\* a step in which a token request fails leaves the cache as it is
failureKeepsCache ==
    (\E i \in 1..Len(tokenCalls) : ~tokenCalls[i].failed /\ tokenCalls'[i].failed)
        => zoomTokenCache' = zoomTokenCache

\* C19, as claimed: the cached token is returned without a request only
\* when its expiry is more than 60 s ahead; every other call requests a
\* token; a failed request returns null and leaves the cache unchanged.
C19_CachedOnlyWhenFreshElseRequests ==
    /\ [](cachedOnlyWhenFresh
          /\ \A i \in 1..Len(tokenCalls) :
                (tokenCalls[i].status # "idle" /\ ~tokenCalls[i].fromCache)
                    => tokenCalls[i].requested)
    /\ [][failureKeepsCache]_vars

\* C19, amended: the same, every other call requesting a token when the
\* video provider's credentials are configured, and returning null without
\* a request when they are not.
C19_CachedOnlyWhenFreshElseRequestsIfConfigured ==
    /\ [](cachedOnlyWhenFresh
          /\ \A i \in 1..Len(tokenCalls) :
                (tokenCalls[i].status # "idle" /\ ~tokenCalls[i].fromCache)
                    => IF zoomCreds.available
                       THEN tokenCalls[i].requested
                       ELSE /\ ~tokenCalls[i].requested
                            /\ tokenCalls[i].result = NoZoomToken)
    /\ [][failureKeepsCache]_vars

\* a call returned the cached token one tick after it was obtained, and a
\* later call found it within 60 s of its expiry and requested another
C19_Witness ==
    \E i, j, k \in 1..Len(tokenCalls) :
        /\ tokenCalls[i].status = "returned" /\ tokenCalls[i].result = i
        /\ tokenCalls[j].fromCache /\ tokenCalls[j].result = i
        /\ tokenCalls[j].now > tokenCalls[i].now
        /\ tokenCalls[k].requested /\ tokenCalls[k].seen.token = i

====
